---- MODULE Spec2Model ----
(***************************************************************************)
(* Model of the HTTP gateway of src/main.rs: the warp router built by      *)
(* setup_routes, the balance handler get_balance (address parsing, one     *)
(* provider call, span event, JSON reply), the health handler and the      *)
(* access-log wrapper log_request.                                         *)
(*                                                                         *)
(* Strings are sequences of one-character strings, so that parsing and     *)
(* formatting are computed character by character.                         *)
(***************************************************************************)
EXTENDS Integers, Sequences, FiniteSets

VARIABLES
    provider,   \* the shared Arc<dyn Provider> handle built once by setup_provider
    reqs,       \* the requests received so far, in arrival order
    pending,    \* provider get_balance calls in flight (one record per call)
    vin,        \* the string handed to the address parser (validator specification)
    vout        \* the parser's answer for vin

vars == <<provider, reqs, pending, vin, vout>>

----------------------------------------------------------------------------
\* Bounds of the model.

\* Number of requests one behaviour receives.
MaxRequests == 2

\* Longest run of digits of the strings the validator specification tries.
MaxDigits == 44

----------------------------------------------------------------------------
\* Characters and strings.

Rep(c, n) == [i \in 1..n |-> c]

HexLower == <<"0","1","2","3","4","5","6","7","8","9","a","b","c","d","e","f">>
HexUpper == <<"0","1","2","3","4","5","6","7","8","9","A","B","C","D","E","F">>

\* Value of one hex digit, -1 for any other character.
HexVal(c) ==
    IF \E i \in 1..16 : HexLower[i] = c
    THEN (CHOOSE i \in 1..16 : HexLower[i] = c) - 1
    ELSE IF \E i \in 1..16 : HexUpper[i] = c
         THEN (CHOOSE i \in 1..16 : HexUpper[i] = c) - 1
         ELSE -1

\* An Address is 20 bytes (alloy_primitives::Address).
AddrBytes == 20

NoBytes == <<>>

\* Variant: the prefix is taken for granted from the length alone.
strip_prefix_by_length(s) ==
    IF Len(s) = 2 * AddrBytes + 2 THEN SubSeq(s, 3, Len(s)) ELSE s

\* The optional "0x" is removed before decoding.
strip_prefix(s) ==
    IF Len(s) >= 2 /\ s[1] = "0" /\ s[2] = "x" THEN SubSeq(s, 3, Len(s)) ELSE s

\* address.parse::<Address>() : hex decoding of the string into 20 bytes.
ParseAddress(s) ==
    IF Len(s) % 2 # 0
    THEN [ok |-> FALSE, err |-> "OddLength", bytes |-> NoBytes]
    ELSE LET t == strip_prefix(s) IN
         IF Len(t) \div 2 # AddrBytes
         THEN [ok |-> FALSE, err |-> "InvalidStringLength", bytes |-> NoBytes]
         ELSE IF \E i \in 1..Len(t) : HexVal(t[i]) < 0
              THEN [ok |-> FALSE, err |-> "InvalidHexCharacter", bytes |-> NoBytes]
              ELSE [ok |-> TRUE, err |-> "",
                    bytes |-> [i \in 1..AddrBytes |->
                                 16 * HexVal(t[2*i - 1]) + HexVal(t[2*i])]]

\* Variant: the digits come out least significant first.
RECURSIVE to_string_reversed(_)
to_string_reversed(n) ==
    IF n < 10 THEN <<HexLower[n + 1]>>
    ELSE <<HexLower[(n % 10) + 1]>> \o to_string_reversed(n \div 10)

\* balance.to_string() : the decimal digits of an unsigned integer.
RECURSIVE to_string(_)
to_string(n) ==
    IF n < 10 THEN <<HexLower[n + 1]>>
    ELSE to_string(n \div 10) \o <<HexLower[(n % 10) + 1]>>

\* warp::reply::json(&BalanceResponse { balance }) : one field, a JSON string.
BalanceResponse(balance) ==
    <<"{", "\"", "b","a","l","a","n","c","e", "\"", ":", "\"">>
        \o balance \o <<"\"", "}">>

----------------------------------------------------------------------------
\* Requests: a method and a path, the path a sequence of segments.

SegHealth   == <<"h","e","a","l","t","h">>
SegBalance  == <<"b","a","l","a","n","c","e">>
SegOther    == <<"n","o","n","e","x","i","s","t","e","n","t">>

\* The address of the repository's test and doc example.
AddrZero     == <<"0","x">> \o Rep("0", 2 * AddrBytes)
AddrMixed    == <<"0","x">> \o Rep("d", 10) \o Rep("A", 10) \o Rep("9", 10) \o Rep("f", 10)
AddrNoPrefix == Rep("0", 2 * AddrBytes)
AddrText     == <<"n","o","t","-","a","n","-","a","d","d","r","e","s","s">>
AddrNonHex   == <<"0","x">> \o Rep("0", 2 * AddrBytes - 1) \o <<"g">>
AddrShort    == <<"0","x">> \o Rep("0", 2 * AddrBytes - 2)

Addresses == {AddrZero, AddrMixed, AddrNoPrefix, AddrText, AddrNonHex, AddrShort}

PathHealth     == <<SegHealth>>
PathBalance(a) == <<SegBalance, a>>

Inputs ==
    ({"GET"} \X ({PathHealth, <<SegOther>>, <<>>, <<SegBalance>>,
                  <<SegBalance, <<>>>>, <<SegBalance, AddrZero, SegOther>>,
                  <<SegHealth, SegOther>>}
                 \cup {PathBalance(a) : a \in Addresses}))
    \cup ({"POST"} \X {PathHealth, PathBalance(AddrZero), <<SegOther>>})

\* Balances the provider may report (alloy's Uint<256, 4>); the model keeps to
\* values below 2^31, the test double's 1000 among them.
Balances == {0, 1000, 90210, 2147483647}

ProviderOk(b) == [ok |-> TRUE, balance |-> b]
ProviderErr   == [ok |-> FALSE, balance |-> 0]

\* The endpoint the provider handle is built on (get_ethereum_rpc_url).
RpcUrls == {"http://localhost:8545", "http://node.example:8545"}

----------------------------------------------------------------------------
\* Filter results, rejections and replies.

NoReply == [status |-> 0, body |-> <<>>]

Reply(status, body) == [state |-> "ok", rej |-> "", reply |-> [status |-> status, body |-> body]]
Reject(rej)         == [state |-> "err", rej |-> rej, reply |-> NoReply]
Suspended           == [state |-> "pending", rej |-> "", reply |-> NoReply]

\* Status of a rejection: a path or method mismatch, or the custom ServerError,
\* for which no recover filter is installed.
RejStatus(rej) ==
    CASE rej = "NotFound"         -> 404
      [] rej = "MethodNotAllowed" -> 405
      [] rej = "ServerError"      -> 500

\* Rejections of the two sides of `or`: a path mismatch yields to anything,
\* a method mismatch to anything but a path mismatch, else the higher status.
CombineRejection(a, b) ==
    IF b = "NotFound" THEN a
    ELSE IF a = "NotFound" THEN b
    ELSE IF b = "MethodNotAllowed" THEN a
    ELSE IF a = "MethodNotAllowed" THEN b
    ELSE IF RejStatus(a) < RejStatus(b) THEN b ELSE a

StatusOf(res) == IF res.state = "ok" THEN res.reply.status ELSE RejStatus(res.rej)

is_success(status) == status >= 200 /\ status <= 299

\* One entry of a request's trace: log lines, span operations, provider traffic.
E(kind, text, data) == [kind |-> kind, text |-> text, data |-> data]

NoResult == [state |-> "none", balance |-> 0]

NewRequest(m, p) ==
    [method |-> m, path |-> p, pc |-> "routing", handlers |-> <<>>, calls |-> 0,
     trace |-> <<>>, access |-> <<>>, response |-> NoReply, result |-> NoResult]

----------------------------------------------------------------------------
\* Handlers.  A handler step takes the request record and gives the record
\* after the step together with the state of the route's future.

Step(q, res) == [q |-> q, res |-> res]

\* with_provider: every balance request is handed a clone of the one handle.
with_provider == provider

\* Variant: the provider is queried before the address is validated.
get_balance_start_call_first(q, address) ==
    LET parsed == ParseAddress(address)
        entered == [q EXCEPT !.handlers = Append(@, "get_balance"),
                             !.calls = @ + 1,
                             !.trace = @ \o <<E("span_start", "get_balance", <<>>),
                                              E("provider_call", "get_balance", <<>>),
                                              E("log_info", "Parsing address", address)>>]
    IN  IF ~parsed.ok
        THEN Step([entered EXCEPT !.trace = @ \o
                      <<E("log_error", "Failed to parse address", <<>>)>>],
                  Reject("ServerError"))
        ELSE Step(entered, Suspended)

\* get_balance up to its only suspension point: span start, address parsing,
\* and, for a parsed address, the provider call.
get_balance_start(q, address) ==
    LET parsed == ParseAddress(address)
        entered == [q EXCEPT !.handlers = Append(@, "get_balance"),
                             !.trace = @ \o <<E("span_start", "get_balance", <<>>),
                                              E("log_info", "Parsing address", address)>>]
    IN  IF ~parsed.ok
        THEN Step([entered EXCEPT !.trace = @ \o
                      <<E("log_error", "Failed to parse address", <<>>)>>],
                  Reject("ServerError"))
        ELSE Step([entered EXCEPT !.calls = @ + 1,
                                  !.trace = @ \o
                      <<E("log_info", "Querying balance for address", <<>>),
                        E("provider_call", "get_balance", <<>>)>>],
                  Suspended)

\* The success path shared by the variants below.
FetchedStep(q, balance) ==
    Step([q EXCEPT !.result = [state |-> "ok", balance |-> balance],
                   !.trace = @ \o
             <<E("provider_return", "ok", <<>>),
               E("log_info", "Fetched balance", to_string(balance)),
               E("span_event", "Fetched balance", to_string(balance)),
               E("span_end", "get_balance", <<>>),
               E("reply", "json", BalanceResponse(to_string(balance)))>>],
         Reply(200, BalanceResponse(to_string(balance))))

\* Variant: a failed provider call is tried once more before giving up.
get_balance_resume_retry(q, result) ==
    IF ~result.ok
    THEN Step([q EXCEPT !.result = [state |-> "err", balance |-> 0],
                        !.calls = @ + 1,
                        !.trace = @ \o <<E("provider_return", "err", <<>>),
                                         E("provider_call", "get_balance", <<>>),
                                         E("provider_return", "err", <<>>)>>],
              Reject("ServerError"))
    ELSE FetchedStep(q, result.balance)

\* Variant: a failed provider call is answered with a zero balance.
get_balance_resume_degraded(q, result) ==
    IF ~result.ok
    THEN Step([q EXCEPT !.result = [state |-> "err", balance |-> 0],
                        !.trace = @ \o <<E("provider_return", "err", <<>>),
                                         E("reply", "json", BalanceResponse(to_string(0)))>>],
              Reply(200, BalanceResponse(to_string(0))))
    ELSE FetchedStep(q, result.balance)

\* Variant: the span event is recorded whatever the provider answered.
get_balance_resume_event_always(q, result) ==
    IF ~result.ok
    THEN Step([q EXCEPT !.result = [state |-> "err", balance |-> 0],
                        !.trace = @ \o <<E("provider_return", "err", <<>>),
                                         E("span_event", "Fetched balance", to_string(0))>>],
              Reject("ServerError"))
    ELSE FetchedStep(q, result.balance)

\* get_balance from the provider's answer to its end: a failure is mapped to
\* ServerError; a balance is logged, recorded as one span event and returned
\* as the JSON reply.
get_balance_resume(q, result) ==
    IF ~result.ok
    THEN Step([q EXCEPT !.result = [state |-> "err", balance |-> 0],
                        !.trace = @ \o <<E("provider_return", "err", <<>>)>>],
              Reject("ServerError"))
    ELSE LET balance == result.balance IN
         Step([q EXCEPT !.result = [state |-> "ok", balance |-> balance],
                        !.trace = @ \o
                  <<E("provider_return", "ok", <<>>),
                    E("log_info", "Fetched balance", to_string(balance)),
                    E("span_event", "Fetched balance", to_string(balance)),
                    E("span_end", "get_balance", <<>>),
                    E("reply", "json", BalanceResponse(to_string(balance)))>>],
              Reply(200, BalanceResponse(to_string(balance))))

\* Variant: the probe reports the backend, failing while calls are in flight.
health_check_backend ==
    IF pending # {} THEN Reject("ServerError") ELSE Reply(200, <<"O", "K">>)

\* health_check: always Ok("OK").
health_check == Reply(200, <<"O", "K">>)

\* log_request: one access log line, at info for a 2xx status, else at error.
log_request(method, path, status) ==
    [level |-> IF is_success(status) THEN "info" ELSE "error",
     method |-> method, path |-> path, status |-> status]

----------------------------------------------------------------------------
\* Router (setup_routes).

\* Variant: the balance route without its method filter.
balance_route_filters_any_method(method, path) ==
    IF ~(Len(path) = 2 /\ path[1] = SegBalance /\ path[2] # <<>>)
    THEN Reject("NotFound")
    ELSE Reply(0, <<>>)

\* warp::path!("balance" / String).and(warp::get()): the filters ahead of
\* get_balance.  The parameter segment must not be empty.
balance_route_filters(method, path) ==
    IF ~(Len(path) = 2 /\ path[1] = SegBalance /\ path[2] # <<>>)
    THEN Reject("NotFound")
    ELSE IF method # "GET" THEN Reject("MethodNotAllowed")
    ELSE Reply(0, <<>>)

\* warp::path!("health").and(warp::get()).and_then(health_check)
health_route(method, path) ==
    IF path # PathHealth THEN Reject("NotFound")
    ELSE IF method # "GET" THEN Reject("MethodNotAllowed")
    ELSE health_check

\* The reply the server sends for a route result.
Respond(q, res) ==
    [q EXCEPT !.pc = "done",
              !.response = IF res.state = "ok" THEN res.reply
                           ELSE [status |-> RejStatus(res.rej), body |-> <<>>]]

\* balance_route.with(warp::log::custom(log_request)).or(health_route), from
\* the point where the balance route's future has completed with `res`: the
\* log wrapper reports the balance route's own outcome, then a rejection falls
\* through to the health route.
setup_routes(q, res) ==
    LET logged == [q EXCEPT !.access =
                      Append(@, log_request(q.method, q.path, StatusOf(res)))]
    IN  IF res.state = "ok" THEN Respond(logged, res)
        ELSE LET h == health_route(q.method, q.path) IN
             IF h.state = "ok"
             THEN Respond([logged EXCEPT !.handlers = Append(@, "health_check")], h)
             ELSE Respond(logged, Reject(CombineRejection(res.rej, h.rej)))

\* Variant: the answer is kept in a shared slot every waiting request reads.
Resume_shared(rs, i, result) ==
    [j \in DOMAIN rs |->
        IF rs[j].pc = "awaiting"
        THEN LET s == get_balance_resume(rs[j], result) IN setup_routes(s.q, s.res)
        ELSE rs[j]]

\* The provider's answer reaches the one request that awaits it.
Resume(rs, i, result) ==
    LET s == get_balance_resume(rs[i], result)
    IN  [rs EXCEPT ![i] = setup_routes(s.q, s.res)]

----------------------------------------------------------------------------
\* Actions.

Init ==
    /\ provider \in {[url |-> u] : u \in RpcUrls}
    /\ reqs = <<>>
    /\ pending = {}
    /\ vin = <<>>
    /\ vout = [state |-> "idle", ok |-> FALSE, bytes |-> NoBytes]

\* A request for which the balance route's filters pass: get_balance runs to
\* the provider call, or fails on the address.
BalanceRequest(m, p) ==
    /\ Len(reqs) < MaxRequests
    /\ balance_route_filters(m, p).state = "ok"
    /\ LET s == get_balance_start(NewRequest(m, p), p[2])
           i == Len(reqs) + 1
       IN  IF s.res.state = "pending"
           THEN /\ reqs' = Append(reqs, [s.q EXCEPT !.pc = "awaiting"])
                /\ pending' = pending \cup
                      {[req |-> i, address |-> ParseAddress(p[2]).bytes,
                        via |-> with_provider]}
           ELSE /\ reqs' = Append(reqs, setup_routes(s.q, s.res))
                /\ pending' = pending
    /\ UNCHANGED <<provider, vin, vout>>

\* A request the balance route rejects: it is logged by the wrapper and then
\* offered to the health route.
OtherRequest(m, p) ==
    /\ Len(reqs) < MaxRequests
    /\ balance_route_filters(m, p).state = "err"
    /\ reqs' = Append(reqs, setup_routes(NewRequest(m, p), balance_route_filters(m, p)))
    /\ UNCHANGED <<provider, pending, vin, vout>>

\* The provider answers one call in flight.
ProviderReturn(c, result) ==
    /\ c \in pending
    /\ reqs' = Resume(reqs, c.req, result)
    /\ pending' = pending \ {c}
    /\ UNCHANGED <<provider, vin, vout>>

Next ==
    \/ \E in \in Inputs : BalanceRequest(in[1], in[2])
    \/ \E in \in Inputs : OtherRequest(in[1], in[2])
    \/ \E c \in pending : \E b \in Balances : ProviderReturn(c, ProviderOk(b))
    \/ \E c \in pending : ProviderReturn(c, ProviderErr)

Spec == Init /\ [][Next]_vars

----------------------------------------------------------------------------
\* The address validator on its own: one string is chosen and parsed.

ValidatorInputs ==
    {Rep("0", n) : n \in 0..MaxDigits}
    \cup {<<"0","x">> \o Rep("a", n) : n \in 0..MaxDigits}
    \cup {[AddrZero EXCEPT ![i] = c] : i \in 1..Len(AddrZero), c \in {"g", "x", "X", "-"}}
    \cup {[AddrNoPrefix EXCEPT ![i] = c] : i \in 1..Len(AddrNoPrefix), c \in {"g", "F"}}
    \cup Addresses

InitValidator ==
    /\ provider \in {[url |-> u] : u \in RpcUrls}
    /\ reqs = <<>>
    /\ pending = {}
    /\ vin \in ValidatorInputs
    /\ vout = [state |-> "idle", ok |-> FALSE, bytes |-> NoBytes]

Validate ==
    /\ vout.state = "idle"
    /\ vout' = [state |-> "parsed", ok |-> ParseAddress(vin).ok,
                bytes |-> ParseAddress(vin).bytes]
    /\ UNCHANGED <<provider, reqs, pending, vin>>

NextValidator == Validate

SpecValidator == InitValidator /\ [][NextValidator]_vars

----------------------------------------------------------------------------
\* Vocabulary of the properties.

Range(f) == {f[i] : i \in DOMAIN f}

Positions(q, kind) == {k \in DOMAIN q.trace : q.trace[k].kind = kind}

\* The request is a GET on /balance/{address} with a non-empty address.
IsBalanceGet(q) ==
    /\ q.method = "GET"
    /\ Len(q.path) = 2
    /\ q.path[1] = SegBalance
    /\ q.path[2] # <<>>

IsHealthGet(q) == q.method = "GET" /\ q.path = PathHealth

RanBalanceHandler(q) == "get_balance" \in Range(q.handlers)

CallsInFlight(i) == {c \in pending : c.req = i}

HexChars == {"0","1","2","3","4","5","6","7","8","9",
             "a","b","c","d","e","f","A","B","C","D","E","F"}

DecChars == <<"0","1","2","3","4","5","6","7","8","9">>

IsDecimal(d) == Len(d) >= 1 /\ \A k \in DOMAIN d : \E v \in 1..10 : DecChars[v] = d[k]

\* The number a decimal numeral denotes, read digit by digit.
RECURSIVE DecValue(_)
DecValue(d) ==
    IF Len(d) = 0 THEN 0
    ELSE 10 * DecValue(SubSeq(d, 1, Len(d) - 1))
         + ((CHOOSE v \in 1..10 : DecChars[v] = d[Len(d)]) - 1)

\* d is the decimal rendering of n: digits only, no leading zero, value n.
Renders(d, n) ==
    /\ IsDecimal(d)
    /\ (Len(d) > 1 => d[1] # "0")
    /\ DecValue(d) = n

JsonHead == <<"{", "\"", "b","a","l","a","n","c","e", "\"", ":", "\"">>
JsonTail == <<"\"", "}">>

----------------------------------------------------------------------------
\* C1: a balance request whose address does not parse never causes a provider
\* call: none is issued, none is in flight, and the request ends in failure.
C1_InvalidAddressNoProviderCall ==
    \A i \in DOMAIN reqs :
        LET q == reqs[i] IN
        (RanBalanceHandler(q) /\ ~ParseAddress(q.path[2]).ok) =>
            /\ q.calls = 0
            /\ Positions(q, "provider_call") = {}
            /\ CallsInFlight(i) = {}
            /\ q.pc = "done"
            /\ q.response.status # 200

C1_Witness ==
    \E i \in DOMAIN reqs :
        /\ RanBalanceHandler(reqs[i])
        /\ reqs[i].path[2] = AddrText
        /\ reqs[i].pc = "done"
        /\ reqs[i].response.status = 500
        /\ reqs[i].calls = 0

\* C2: a balance request whose address parses issues exactly one provider
\* call, while it waits and after it has ended, also when the provider failed.
C2_ExactlyOneProviderCall ==
    \A i \in DOMAIN reqs :
        LET q == reqs[i] IN
        (RanBalanceHandler(q) /\ ParseAddress(q.path[2]).ok) =>
            /\ q.calls = 1
            /\ Cardinality(Positions(q, "provider_call")) = 1
            /\ (q.pc = "awaiting" => Cardinality(CallsInFlight(i)) = 1)
            /\ (q.pc = "done" => CallsInFlight(i) = {})
            /\ \A c \in CallsInFlight(i) : c.address = ParseAddress(q.path[2]).bytes

C2_Witness ==
    \E i \in DOMAIN reqs :
        /\ reqs[i].pc = "done"
        /\ reqs[i].result.state = "err"
        /\ reqs[i].calls = 1

\* C3: a served GET /balance/{address} answers 200 exactly when the address
\* parsed and the provider call succeeded, and 500 otherwise.
C3_BalanceStatus ==
    \A i \in DOMAIN reqs :
        LET q == reqs[i] IN
        (IsBalanceGet(q) /\ q.pc = "done") =>
            /\ q.response.status \in {200, 500}
            /\ (q.response.status = 200
                    <=> (ParseAddress(q.path[2]).ok /\ q.result.state = "ok"))
            /\ (q.result.state = "err" => q.response.status = 500)

C3_Witness ==
    \E i, j \in DOMAIN reqs :
        /\ IsBalanceGet(reqs[i]) /\ reqs[i].response.status = 200
        /\ IsBalanceGet(reqs[j]) /\ reqs[j].result.state = "err"
        /\ reqs[j].response.status = 500

\* The path alone fits one of the two route patterns.
PathFitsRoute(q) ==
    \/ q.path = PathHealth
    \/ (Len(q.path) = 2 /\ q.path[1] = SegBalance /\ q.path[2] # <<>>)

Unrouted(q) == ~IsHealthGet(q) /\ ~IsBalanceGet(q)

\* C4 as stated: every request that is neither GET /health nor
\* GET /balance/{address} is answered 404 and reaches no handler.
C4_UnroutedIs404 ==
    \A i \in DOMAIN reqs :
        Unrouted(reqs[i]) =>
            /\ reqs[i].pc = "done"
            /\ reqs[i].response.status = 404
            /\ reqs[i].handlers = <<>>

\* C4 (amended): such a request reaches no handler and issues no provider
\* call; it is answered 404 when its path fits neither route, and 405 when the
\* path fits a route and only the method differs.
C4_UnroutedIs404Or405 ==
    \A i \in DOMAIN reqs :
        Unrouted(reqs[i]) =>
            /\ reqs[i].pc = "done"
            /\ reqs[i].handlers = <<>>
            /\ reqs[i].calls = 0
            /\ reqs[i].response.status = IF PathFitsRoute(reqs[i]) THEN 405 ELSE 404

C4_Witness ==
    \E i, j \in DOMAIN reqs :
        /\ reqs[i].method = "POST" /\ reqs[i].path = PathBalance(AddrZero)
        /\ reqs[i].response.status = 405
        /\ reqs[j].method = "GET" /\ reqs[j].path = <<SegOther>>
        /\ reqs[j].response.status = 404

----------------------------------------------------------------------------
\* The digits of a string once an "0x" in front, if any, is set aside.
DigitsOf(s) ==
    IF Len(s) >= 2 /\ SubSeq(s, 1, 2) = <<"0", "x">> THEN SubSeq(s, 3, Len(s)) ELSE s

\* C5 as stated: every string whose length is not 42, and every string with
\* a non-hex character after the first two, is rejected.
C5_RejectsAllButLength42 ==
    vout.state = "parsed" =>
        ((Len(vin) # 42 \/ \E k \in 3..Len(vin) : vin[k] \notin HexChars)
            => ~vout.ok)

\* C5 (amended): a string is accepted exactly when it is 40 hex digits,
\* optionally preceded by "0x"; every other length and every non-hex digit is
\* rejected, and an accepted string yields all 20 bytes.
C5_AcceptsExactly40HexDigits ==
    vout.state = "parsed" =>
        /\ vout.ok <=> (/\ Len(DigitsOf(vin)) = 40
                        /\ \A k \in DOMAIN DigitsOf(vin) : DigitsOf(vin)[k] \in HexChars)
        /\ (vout.ok => Len(vin) \in {40, 42})
        /\ (vout.ok => Len(vout.bytes) = 20 /\ \A k \in 1..20 : vout.bytes[k] \in 0..255)

C5_Witness ==
    /\ vout.state = "parsed"
    /\ vin = AddrNoPrefix
    /\ vout.ok

----------------------------------------------------------------------------
\* C6: when the provider returned balance B, the reply is 200 and its body is
\* the JSON object whose one field "balance" is the decimal numeral of B.
C6_BodyIsDecimalBalance ==
    \A i \in DOMAIN reqs :
        LET q == reqs[i]
            body == q.response.body
        IN  (q.pc = "done" /\ q.result.state = "ok") =>
            /\ q.response.status = 200
            /\ Len(body) > Len(JsonHead) + Len(JsonTail)
            /\ SubSeq(body, 1, Len(JsonHead)) = JsonHead
            /\ SubSeq(body, Len(body) - 1, Len(body)) = JsonTail
            /\ Renders(SubSeq(body, Len(JsonHead) + 1, Len(body) - 2), q.result.balance)
            /\ (q.result.balance = 1000 =>
                    body = <<"{", "\"", "b","a","l","a","n","c","e", "\"", ":",
                             "\"", "1","0","0","0", "\"", "}">>)

C6_Witness ==
    \E i, j \in DOMAIN reqs :
        /\ reqs[i].pc = "done" /\ reqs[i].result = [state |-> "ok", balance |-> 1000]
        /\ reqs[i].path = PathBalance(AddrZero)
        /\ reqs[j].pc = "done" /\ reqs[j].result = [state |-> "ok", balance |-> 2147483647]

\* C7: every GET /health is answered at once with 200 and body OK, whatever
\* the other requests and the provider are doing, and issues no provider call.
C7_HealthAlwaysOk ==
    \A i \in DOMAIN reqs :
        IsHealthGet(reqs[i]) =>
            /\ reqs[i].pc = "done"
            /\ reqs[i].response = [status |-> 200, body |-> <<"O", "K">>]
            /\ reqs[i].handlers = <<"health_check">>
            /\ reqs[i].calls = 0
            /\ CallsInFlight(i) = {}

C7_Witness ==
    \E i, j \in DOMAIN reqs :
        /\ i < j
        /\ reqs[i].pc = "awaiting"
        /\ IsHealthGet(reqs[j])
        /\ reqs[j].response.status = 200

\* C8: every served request has exactly one access log line, which carries
\* the request's method and path and the status of its response, at error
\* level when that status is not 2xx and at info level otherwise.
C8_AccessLogMatchesResponse ==
    \A i \in DOMAIN reqs :
        LET q == reqs[i] IN
        q.pc = "done" =>
            /\ Len(q.access) = 1
            /\ q.access[1].method = q.method
            /\ q.access[1].path = q.path
            /\ q.access[1].status = q.response.status
            /\ q.access[1].level =
                  IF is_success(q.response.status) THEN "info" ELSE "error"

\* C9: a balance handler run whose provider call succeeded has exactly one
\* "Fetched balance" span event, carrying the balance in decimal, placed after
\* the provider's return and before the reply; any other run has none.
C9_OneFetchedEvent ==
    \A i \in DOMAIN reqs :
        LET q == reqs[i]
            ev == {k \in Positions(q, "span_event") : q.trace[k].text = "Fetched balance"}
        IN  RanBalanceHandler(q) =>
            IF q.result.state = "ok"
            THEN /\ Cardinality(ev) = 1
                 /\ \A k \in ev :
                      /\ Renders(q.trace[k].data, q.result.balance)
                      /\ \E r \in Positions(q, "provider_return") : r < k
                      /\ \A r \in Positions(q, "provider_call") : r < k
                      /\ \E r \in Positions(q, "reply") : k < r
                      /\ \A r \in Positions(q, "reply") : k < r
            ELSE ev = {}

C9_Witness ==
    \E i, j \in DOMAIN reqs :
        /\ RanBalanceHandler(reqs[i]) /\ reqs[i].result.state = "ok"
        /\ Positions(reqs[i], "span_event") # {}
        /\ RanBalanceHandler(reqs[j]) /\ reqs[j].result.state = "err"
        /\ reqs[j].pc = "done"

\* What a balance request's own address and own provider answer determine.
OwnOutcome(address, result) ==
    IF ParseAddress(address).ok /\ result.state = "ok"
    THEN [status |-> 200, body |-> JsonHead \o to_string(result.balance) \o JsonTail]
    ELSE [status |-> 500, body |-> <<>>]

\* C10: a step never touches a request other than the one it serves, the
\* request it completes ends with the outcome its own address and its own
\* provider answer determine, a provider answer completes only the request
\* whose call it answers, and the provider handle never changes.
C10_NoInterference ==
    [][ /\ provider' = provider
        /\ \A c \in pending' : c.via = provider
        /\ \A i \in DOMAIN reqs :
             /\ i \in DOMAIN reqs'
             /\ reqs'[i] # reqs[i] =>
                  /\ reqs[i].pc = "awaiting"
                  /\ \E c \in pending : c.req = i /\ pending' = pending \ {c}
                  /\ \A j \in DOMAIN reqs : j # i => reqs'[j] = reqs[j]
        /\ \A i \in DOMAIN reqs' :
             (RanBalanceHandler(reqs'[i]) /\ reqs'[i].pc = "done") =>
                 reqs'[i].response = OwnOutcome(reqs'[i].path[2], reqs'[i].result)
      ]_vars

\* Two requests were in flight together and the later one finished first.
C10_Witness ==
    \E i, j \in DOMAIN reqs :
        /\ i < j
        /\ reqs[i].pc = "awaiting"
        /\ RanBalanceHandler(reqs[j])
        /\ reqs[j].pc = "done"
        /\ reqs[j].result.state = "ok"
        /\ reqs[j].response.status = 200

====
